---------------------------- MODULE Spec2Model ----------------------------
(***************************************************************************)
(* A model of the capng crate (src/src/lib.rs): safe wrappers around the   *)
(* libcap-ng interface declared in src/src/bindings.rs.                    *)
(*                                                                         *)
(* The wrappers (clear, fill, update, updatev, have_capabilities,          *)
(* save_state, restore_state, the status-returning calls and the           *)
(* TryFrom<i32> conversion) are translated from lib.rs.  The library       *)
(* behind the extern "C" block is not part of the sources; the capng_*     *)
(* operators below describe it as the specification's sections 3, 4 and 6  *)
(* do: a staged state of one bit per (kind, capability), scopes CAPS       *)
(* (effective, permitted, inheritable) and BOUNDS (bounding set).          *)
(***************************************************************************)
EXTENDS Integers, Sequences, FiniteSets, TLC

(* ------------------------------ bounds -------------------------------- *)

\* Valid capability ids are 0 .. NumCaps-1; NumCaps itself is an invalid id.
NumCaps == 2
\* Longest batch handed to update / updatev.
MaxBatch == 3
\* Native snapshot blocks that can be allocated at the same time.
MaxSnaps == 2
\* Return codes of the kernel interface are drawn from -MaxCode .. MaxCode
\* and the two ends of the i32 range.
MaxCode == 4

(* ------------------- flag and enum values (lib.rs) -------------------- *)

EFFECTIVE == 1
PERMITTED == 2
INHERITABLE == 4
BOUNDING_SET == 8
Types == {EFFECTIVE, PERMITTED, INHERITABLE, BOUNDING_SET}

CAPS == 16
BOUNDS == 32
BOTH == CAPS + BOUNDS

DROP == 0
ADD == 1
Actions == {DROP, ADD}

\* bitflags `contains` for a single-bit flag: (bits & flag) != 0.
HasFlag(bits, flag) == (bits \div flag) % 2 = 1

\* The ends of the i32 range of a return code.
I32Max == 2147483647
I32Min == (-I32Max) - 1
\* `x as u32` of a flag set's bits, of an Action or of a non-negative
\* capability id: the value is already in 0 .. 2^32-1 and is kept.
U32(n) == IF n >= 0 THEN n ELSE n + I32Max + I32Max + 2

Caps == 0 .. (NumCaps - 1)
InvalidCap == NumCaps

Ok(v) == [ok |-> TRUE, val |-> v]
Err(e) == [ok |-> FALSE, err |-> e]
Unit == "()"

(* ------------------ Error variants that carry data -------------------- *)

UpdateCapability(c) == [kind |-> "UpdateCapability", cap |-> c]
GetCapabilityId(name) == [kind |-> "GetCapabilityId", name |-> name]
InvalidHaveCapsResult(n) == [kind |-> "InvalidHaveCapsResult", value |-> n]
ConvertCapabilityName == [kind |-> "ConvertCapabilityName"]
GetProcessCapabilities == [kind |-> "GetProcessCapabilities"]
ApplyCapabilities == [kind |-> "ApplyCapabilities"]
LockCapabilities == [kind |-> "LockCapabilities"]
ChangeTargetId == [kind |-> "ChangeTargetId"]
GetCapsFile(file) == [kind |-> "GetCapsFile", file |-> file]
ApplyCapsFile(file) == [kind |-> "ApplyCapsFile", file |-> file]

(* ---------- the library behind bindings.rs (from the spec) ------------ *)

\* The kinds a scope covers: CAPS is the process capabilities (effective,
\* permitted, inheritable), BOUNDS the bounding set.
InScope(t, set) ==
    \/ t \in {EFFECTIVE, PERMITTED, INHERITABLE} /\ HasFlag(set, CAPS)
    \/ t = BOUNDING_SET /\ HasFlag(set, BOUNDS)

\* A staged state created empty.
EmptyState == [t \in Types |-> {}]
FullState == [t \in Types |-> Caps]

capng_clear(mm, set) ==
    [t \in Types |-> IF InScope(t, set) THEN {} ELSE mm[t]]

capng_fill(mm, set) ==
    [t \in Types |-> IF InScope(t, set) THEN Caps ELSE mm[t]]

\* Updates one (kind, capability) bit; an invalid capability id is rejected
\* and leaves the staged state alone.
capng_update(mm, action, type, capability) ==
    IF capability \notin Caps
    THEN [ret |-> -1, m |-> mm]
    ELSE [ret |-> 0,
          m |-> [t \in Types |->
                    IF HasFlag(type, t)
                    THEN IF action = ADD THEN mm[t] \cup {capability}
                                         ELSE mm[t] \ {capability}
                    ELSE mm[t]]]

\* The four-way classification of a scope: 0 no bit set, 2 all bits set,
\* 1 some but not all.
capng_have_capabilities(mm, set) ==
    LET scope == {t \in Types : InScope(t, set)}
        nset == Cardinality({tc \in scope \X Caps : tc[2] \in mm[tc[1]]})
        nall == Cardinality(scope \X Caps)
    IN  IF nset = 0 THEN 0 ELSE IF nset = nall THEN 2 ELSE 1

capng_have_capability(mm, which, capability) ==
    IF which \in Types /\ capability \in mm[which] THEN 1 ELSE 0

(* --------------------------- lib.rs wrappers -------------------------- *)

TryFromFailCoerced(n) ==
    CASE n = -1 -> Ok("FAIL")
      [] n = 0 -> Ok("NONE")
      [] n = 1 -> Ok("PARTIAL")
      [] n = 2 -> Ok("FULL")
      [] OTHER -> Ok("FAIL")

TryFromSwapped(n) ==
    CASE n = -1 -> Ok("FAIL")
      [] n = 0 -> Ok("NONE")
      [] n = 1 -> Ok("FULL")
      [] n = 2 -> Ok("PARTIAL")
      [] OTHER -> Err(InvalidHaveCapsResult(n))

\* impl TryFrom<i32> for HaveCapsResult
TryFrom(n) ==
    CASE n = -1 -> Ok("FAIL")
      [] n = 0 -> Ok("NONE")
      [] n = 1 -> Ok("PARTIAL")
      [] n = 2 -> Ok("FULL")
      [] OTHER -> Err(InvalidHaveCapsResult(n))

clearCapsOnly(mm, set) == capng_clear(mm, CAPS)

clear(mm, set) == capng_clear(mm, U32(set))

fill(mm, set) == capng_fill(mm, U32(set))

have_capabilities(mm, set) == TryFrom(capng_have_capabilities(mm, U32(set)))

have_capabilityInverted(mm, which, capability) ==
    capng_have_capability(mm, U32(which), capability) = 0

have_capability(mm, which, capability) ==
    capng_have_capability(mm, U32(which), capability) = 1

\* A CUpdate value.
CUpdate(a, t, c) == [action |-> a, cap_type |-> t, capability |-> c]

RECURSIVE updateFrom(_, _, _)
\* The loop of update from its i-th element on: the staged state it leaves
\* and the Result it returns.
updateFrom(mm, updates, i) ==
    IF i > Len(updates)
    THEN [m |-> mm, result |-> Ok(Unit)]
    ELSE LET u == updates[i]
             r == capng_update(mm, U32(u.action), U32(u.cap_type), u.capability)
         IN  IF r.ret < 0
             THEN [m |-> r.m, result |-> Err(UpdateCapability(u.capability))]
             ELSE updateFrom(r.m, updates, i + 1)

RECURSIVE updateKeepsGoingFrom(_, _, _, _)
updateKeepsGoingFrom(mm, updates, i, res) ==
    IF i > Len(updates)
    THEN [m |-> mm, result |-> res]
    ELSE LET u == updates[i]
             r == capng_update(mm, U32(u.action), U32(u.cap_type), u.capability)
         IN  updateKeepsGoingFrom(r.m, updates, i + 1,
                 IF r.ret < 0 /\ res.ok THEN Err(UpdateCapability(u.capability))
                                         ELSE res)

updateKeepsGoing(mm, updates) == updateKeepsGoingFrom(mm, updates, 1, Ok(Unit))

updateReversed(mm, updates) ==
    updateFrom(mm, [i \in 1 .. Len(updates) |-> updates[Len(updates) + 1 - i]], 1)

update(mm, updates) == updateFrom(mm, updates, 1)

(* ------------- capability names (the platform's table) --------------- *)

\* A name is a sequence of bytes.  The table gives capability c the name
\* "C<c>" (bytes 67, 48 + c); no other name is known.
CapName(c) == <<67, 48 + c>>
UnknownName == <<88>>
NulName == <<67, 0, 48>>
Names == {CapName(c) : c \in Caps} \cup {UnknownName, NulName}

\* The id of a name, or a negative value for a name the table lacks.
capng_name_to_capability(cstr) ==
    IF \E c \in Caps : CapName(c) = cstr
    THEN CHOOSE c \in Caps : CapName(c) = cstr
    ELSE -1

\* CString::new fails on a name with an interior NUL byte.
CStringNew(name) ==
    IF \E i \in 1 .. Len(name) : name[i] = 0
    THEN Err("NulError")
    ELSE Ok(name)

name_to_capability(name) ==
    LET cstr == CStringNew(name)
    IN  IF ~cstr.ok
        THEN Err(ConvertCapabilityName)
        ELSE LET cap_id == capng_name_to_capability(cstr.val)
             IN  IF cap_id < 0
                 THEN Err(GetCapabilityId(name))
                 ELSE Ok(U32(cap_id))

RECURSIVE updatevFrom(_, _, _, _, _)
\* The loop of updatev from its i-th name on.
updatevFrom(mm, action, type, names, i) ==
    IF i > Len(names)
    THEN [m |-> mm, result |-> Ok(Unit)]
    ELSE LET rc == name_to_capability(names[i])
         IN  IF ~rc.ok
             THEN [m |-> mm, result |-> Err(rc.err)]
             ELSE LET cap == rc.val
                      r == capng_update(mm, U32(action), U32(type), cap)
                  IN  IF r.ret < 0
                      THEN [m |-> r.m, result |-> Err(UpdateCapability(cap))]
                      ELSE updatevFrom(r.m, action, type, names, i + 1)

updatevResolveFirst(mm, action, type, names) ==
    LET bad == {i \in 1 .. Len(names) : ~name_to_capability(names[i]).ok}
    IN  IF bad = {}
        THEN updatevFrom(mm, action, type, names, 1)
        ELSE LET k == CHOOSE i \in bad : \A j \in bad : i <= j
             IN  [m |-> mm, result |-> Err(name_to_capability(names[k]).err)]

updatev(mm, action, type, names) == updatevFrom(mm, action, type, names, 1)

(* ------------------------ snapshots (lib.rs) --------------------------- *)

\* Addresses of native snapshot blocks; NULL is the null pointer.
NULL == 0
Ptrs == 1 .. MaxSnaps
\* A block: released, or holding a captured staged state.
Free == [used |-> FALSE]
Block(mm) == [used |-> TRUE, state |-> mm]

\* Option<T>
None == [some |-> FALSE]
Some(v) == [some |-> TRUE, val |-> v]

\* The library copies the staged state into a block of its own and returns
\* the block's address p, or NULL when it has nothing to return.
capng_save_state(hp, mm, p) ==
    IF p = NULL THEN hp ELSE [hp EXCEPT ![p] = Block(mm)]

\* The library reinstates the captured state and releases the block.
capng_restore_state(hp, mm, p) ==
    [m |-> hp[p].state, heap |-> [hp EXCEPT ![p] = Free]]

\* struct CapngState { opaque }
CapngState(opaque) == [opaque |-> opaque]

\* save_state, the library having returned the address p.
save_state(p) == IF p = NULL THEN None ELSE Some(CapngState(p))

restore_stateForgets(hp, mm, state) == [m |-> mm, heap |-> hp]

\* restore_state: hands the handle's pointer to the library.
restore_state(hp, mm, state) == capng_restore_state(hp, mm, state.opaque)

(* ------------- status-returning wrappers (lib.rs) --------------------- *)
\* Each takes the code ret the kernel interface returned.

get_caps_processNonNegative(ret) ==
    IF ret >= 0 THEN Ok(Unit) ELSE Err(GetProcessCapabilities)

get_caps_process(ret) ==
    IF ret = 0 THEN Ok(Unit) ELSE Err(GetProcessCapabilities)

apply(ret) == IF ret = 0 THEN Ok(Unit) ELSE Err(ApplyCapabilities)

lock(ret) == IF ret = 0 THEN Ok(Unit) ELSE Err(LockCapabilities)

change_id(ret) == IF ret = 0 THEN Ok(Unit) ELSE Err(ChangeTargetId)

get_caps_file(file, ret) == IF ret = 0 THEN Ok(Unit) ELSE Err(GetCapsFile(file))

apply_caps_fd(file, ret) == IF ret = 0 THEN Ok(Unit) ELSE Err(ApplyCapsFile(file))

RECURSIVE updateRetFrom(_, _, _)
\* The loop of update, the kernel interface returning rets[i] for the
\* i-th operation.
updateRetFrom(updates, rets, i) ==
    IF i > Len(updates)
    THEN Ok(Unit)
    ELSE IF rets[i] < 0
         THEN Err(UpdateCapability(updates[i].capability))
         ELSE updateRetFrom(updates, rets, i + 1)

updateRet(updates, rets) == updateRetFrom(updates, rets, 1)

(* ------------------------------- state -------------------------------- *)

VARIABLES
    m,      \* the library's staged capability state
    pc,     \* the caller: "idle" between calls, "returned" holding a result
    last,   \* the call that just returned: its arguments and its result
    pre,    \* the staged state at the start of that call
    heap,   \* the library's snapshot blocks: a captured state, or Free
    handles,\* the CapngState values the caller owns
    shadow  \* per block, the staged state save_state was called in

vars == <<m, pc, last, pre, heap, handles, shadow>>
snap == <<heap, handles, shadow>>

NoCall == [op |-> "none"]

Sets == {0, CAPS, BOUNDS, BOTH}
Scopes == {CAPS, BOUNDS, BOTH}

Init ==
    /\ m = EmptyState
    /\ pc = "idle"
    /\ last = NoCall
    /\ pre = EmptyState
    /\ heap = [p \in Ptrs |-> Free]
    /\ handles = {}
    /\ shadow = [p \in Ptrs |-> Free]

\* The caller takes the returned value and goes on.
Return ==
    /\ pc = "returned"
    /\ pc' = "idle"
    /\ last' = NoCall
    /\ pre' = m
    /\ UNCHANGED <<m, snap>>

\* clear(set), set any of the inputs.
DoClear(inputs) ==
    /\ pc = "idle"
    /\ \E set \in inputs :
        /\ m' = clear(m, set)
        /\ last' = [op |-> "clear", set |-> set]
    /\ pc' = "returned"
    /\ pre' = m
    /\ UNCHANGED snap

\* fill(set), set any of the inputs.
DoFill(inputs) ==
    /\ pc = "idle"
    /\ \E set \in inputs :
        /\ m' = fill(m, set)
        /\ last' = [op |-> "fill", set |-> set]
    /\ pc' = "returned"
    /\ pre' = m
    /\ UNCHANGED snap

\* update(updates), updates any of the inputs.
DoUpdate(inputs) ==
    /\ pc = "idle"
    /\ \E updates \in inputs :
        LET r == update(m, updates)
        IN  /\ m' = r.m
            /\ last' = [op |-> "update", updates |-> updates, result |-> r.result]
    /\ pc' = "returned"
    /\ pre' = m
    /\ UNCHANGED snap

\* updatev(action, type, names), names any of the inputs.
DoUpdatev(types, inputs) ==
    /\ pc = "idle"
    /\ \E action \in Actions, type \in types, names \in inputs :
        LET r == updatev(m, action, type, names)
        IN  /\ m' = r.m
            /\ last' = [op |-> "updatev", action |-> action, type |-> type,
                        names |-> names, result |-> r.result]
    /\ pc' = "returned"
    /\ pre' = m
    /\ UNCHANGED snap

SeqsUpTo(S, n) == UNION {[1 .. k -> S] : k \in 0 .. n}

\* Single-operation batches over every kind and every capability id, the
\* invalid one included.
SingleUpdates ==
    {<<CUpdate(a, t, c)>> : a \in Actions, t \in Types, c \in Caps \cup {InvalidCap}}

\* Calls in any order; every update is a batch of one operation.
Next ==
    \/ DoClear(Sets)
    \/ DoFill(Sets)
    \/ DoUpdate(SingleUpdates)
    \/ Return

Spec == Init /\ [][Next]_vars

\* The kinds the batches of SpecBatch touch (those lib.rs's tests update).
BatchTypes == {EFFECTIVE, BOUNDING_SET}
BatchOps ==
    {CUpdate(a, t, c) : a \in Actions, t \in BatchTypes, c \in Caps \cup {InvalidCap}}
Batches == SeqsUpTo(BatchOps, MaxBatch)
NameLists == SeqsUpTo(Names, MaxBatch)

\* A state as clear and fill leave it: every scope all clear or all set.
Fresh(mm) ==
    \A s \in {CAPS, BOUNDS} : capng_have_capabilities(mm, s) \in {0, 2}

\* Batches of updates, by value and by name, each applied to a state that
\* clear and fill calls prepared (as lib.rs's tests do); batches of at most
\* one operation are applied to any state.
NextBatch ==
    \/ DoClear(Sets)
    \/ DoFill(Sets)
    \/ DoUpdate(SeqsUpTo(BatchOps, 1))
    \/ Fresh(m) /\ DoUpdate(Batches)
    \/ Fresh(m) /\ DoUpdatev(BatchTypes, NameLists)
    \/ Return

SpecBatch == Init /\ [][NextBatch]_vars


(* ------------------------- snapshot actions --------------------------- *)

\* save_state(): the library returns a free block's address or NULL.
DoSave ==
    /\ pc = "idle"
    /\ \E p \in {q \in Ptrs : heap[q] = Free} \cup {NULL} :
        /\ heap' = capng_save_state(heap, m, p)
        /\ handles' = IF save_state(p).some THEN handles \cup {save_state(p).val}
                      ELSE handles
        /\ shadow' = IF p = NULL THEN shadow ELSE [shadow EXCEPT ![p] = Block(m)]
        /\ last' = [op |-> "save_state", opaque |-> p]
    /\ pc' = "returned"
    /\ pre' = m
    /\ UNCHANGED m

\* restore_state(state): the handle is moved into the call.
DoRestore ==
    /\ pc = "idle"
    /\ \E state \in handles :
        LET r == restore_state(heap, m, state)
        IN  /\ m' = r.m
            /\ heap' = r.heap
            /\ handles' = handles \ {state}
            /\ last' = [op |-> "restore_state", opaque |-> state.opaque,
                        saved |-> shadow[state.opaque].state]
    /\ pc' = "returned"
    /\ pre' = m
    /\ UNCHANGED shadow

\* A CapngState goes out of scope unrestored: the struct has no Drop, so
\* nothing is called.
DoDrop ==
    /\ pc = "idle"
    /\ \E state \in handles :
        /\ handles' = handles \ {state}
        /\ last' = [op |-> "drop", opaque |-> state.opaque]
    /\ pc' = "returned"
    /\ pre' = m
    /\ UNCHANGED <<m, heap, shadow>>

\* The updates of SpecSnap: one EFFECTIVE bit added or dropped.
SnapUpdates == {<<CUpdate(a, EFFECTIVE, 0)>> : a \in Actions}

\* Snapshots taken, restored and dropped between changes of the staged state.
NextSnap ==
    \/ DoClear(Scopes)
    \/ DoFill(Scopes)
    \/ DoUpdate(SnapUpdates)
    \/ DoSave
    \/ DoRestore
    \/ DoDrop
    \/ Return

SpecSnap == Init /\ [][NextSnap]_vars

(* ------------------- calls by their return codes ---------------------- *)

Codes == (-MaxCode .. MaxCode) \cup {I32Min, I32Max}
Files == {3}
StatusOps == {"get_caps_process", "apply", "lock", "change_id",
              "get_caps_file", "apply_caps_fd"}

\* A status-returning call, the kernel interface returning ret.
DoStatus ==
    /\ pc = "idle"
    /\ \E op \in StatusOps, file \in Files, ret \in Codes :
        last' = [op |-> op, ret |-> ret, file |-> file,
                 result |-> CASE op = "get_caps_process" -> get_caps_process(ret)
                              [] op = "apply" -> apply(ret)
                              [] op = "lock" -> lock(ret)
                              [] op = "change_id" -> change_id(ret)
                              [] op = "get_caps_file" -> get_caps_file(file, ret)
                              [] op = "apply_caps_fd" -> apply_caps_fd(file, ret)]
    /\ pc' = "returned"
    /\ UNCHANGED <<m, pre, snap>>

\* update of a batch, the kernel interface returning rets[i] for its i-th
\* operation.
DoUpdateRet ==
    /\ pc = "idle"
    /\ \E n \in 1 .. 2 :
       \E updates \in [1 .. n -> {CUpdate(ADD, EFFECTIVE, c) : c \in Caps \cup {InvalidCap}}],
          rets \in [1 .. n -> Codes] :
            last' = [op |-> "update_ret", updates |-> updates, rets |-> rets,
                     result |-> updateRet(updates, rets)]
    /\ pc' = "returned"
    /\ UNCHANGED <<m, pre, snap>>

\* have_capabilities(set) and have_permitted_capabilities(), the kernel
\* interface returning the classification code ret.
DoHave ==
    /\ pc = "idle"
    /\ \E op \in {"have_capabilities", "have_permitted_capabilities"}, ret \in Codes :
        last' = [op |-> op, ret |-> ret, result |-> TryFrom(ret)]
    /\ pc' = "returned"
    /\ UNCHANGED <<m, pre, snap>>

NextRet ==
    \/ DoStatus
    \/ DoUpdateRet
    \/ DoHave
    \/ Return

SpecRet == Init /\ [][NextRet]_vars

(* ----------------------------- properties ----------------------------- *)

Min(S) == CHOOSE x \in S : \A y \in S : x <= y
Max(S) == CHOOSE x \in S : \A y \in S : x >= y

\* What a list of operations, each on one kind, leaves in bit (t, c) of a
\* state p: the action of the last operation on (t, c), or p's bit when
\* none touches it.
ExpectedBit(p, ops, t, c) ==
    LET idx == {i \in 1 .. Len(ops) :
                    ops[i].cap_type = t /\ ops[i].capability = c}
    IN  IF idx = {} THEN c \in p[t] ELSE ops[Max(idx)].action = ADD

\* The staged state is p with the operations ops applied in order.
IsResultOf(p, ops) ==
    \A t \in Types, c \in Caps : (c \in m[t]) <=> ExpectedBit(p, ops, t, c)

\* The kernel interface rejects the operation u.
Rejected(u) == u.capability \notin Caps

Returned(op) == pc = "returned" /\ last.op = op

\* C1: after clear(BOTH) have_capabilities(BOTH) is Ok(NONE) and after
\* fill(BOTH) it is Ok(FULL), whatever the staged state was before.
C1_ClearFillOpposites ==
    /\ Returned("clear") /\ last.set = BOTH
          => have_capabilities(m, BOTH) = Ok("NONE")
    /\ Returned("fill") /\ last.set = BOTH
          => have_capabilities(m, BOTH) = Ok("FULL")

\* clear(BOTH) has returned NONE from a state that was PARTIAL in both scopes.
C1_Witness ==
    /\ Returned("clear") /\ last.set = BOTH
    /\ have_capabilities(pre, CAPS) = Ok("PARTIAL")
    /\ have_capabilities(pre, BOUNDS) = Ok("PARTIAL")
    /\ have_capabilities(m, BOTH) = Ok("NONE")

\* C2: update applies the batch in order and stops at the first rejected
\* operation: the operations before it have taken effect and stay, those
\* after it are not applied, and the result is Err(UpdateCapability(c)) with
\* c that operation's capability; with none rejected every operation is
\* applied and the result is Ok.
C2_UpdateStopsAtFirstRejection ==
    Returned("update") =>
        LET b == last.updates
            rej == {i \in 1 .. Len(b) : Rejected(b[i])}
            n == IF rej = {} THEN Len(b) ELSE Min(rej) - 1
        IN  /\ IsResultOf(pre, SubSeq(b, 1, n))
            /\ last.result = IF rej = {} THEN Ok(Unit)
                             ELSE Err(UpdateCapability(b[n + 1].capability))

\* A batch of three whose second operation was rejected: the first changed
\* the staged state, the third would have changed it and did not.
C2_Witness ==
    /\ Returned("update") /\ Len(last.updates) = 3
    /\ ~Rejected(last.updates[1]) /\ Rejected(last.updates[2])
    /\ ~Rejected(last.updates[3])
    /\ m # pre
    /\ ~IsResultOf(m, <<last.updates[3]>>)
    /\ last.result = Err(UpdateCapability(last.updates[2].capability))

ScopeOf(t) == IF t = BOUNDING_SET THEN BOUNDS ELSE CAPS

\* A successful batch of one or more ADDs to one kind K, EFFECTIVE or
\* BOUNDING_SET, applied to the state clear(BOTH) leaves.
AddsAfterClear(K) ==
    /\ Returned("update") /\ last.result.ok
    /\ pre = clear(pre, BOTH)
    /\ Len(last.updates) >= 1
    /\ \A i \in 1 .. Len(last.updates) :
          last.updates[i].action = ADD /\ last.updates[i].cap_type = K

Named == {last.updates[i].capability : i \in 1 .. Len(last.updates)}

C5_Monotonicity ==
    /\ Returned("update") /\ last.result.ok /\ Len(last.updates) = 1 =>
          LET u == last.updates[1]
          IN  \A s \in Scopes :
                /\ (/\ u.action = ADD /\ InScope(u.cap_type, s)
                    /\ have_capabilities(pre, s) = Ok("NONE"))
                   => have_capabilities(m, s) = Ok("PARTIAL")
                /\ (/\ u.action = DROP /\ u.cap_type = EFFECTIVE /\ s = CAPS
                    /\ have_capabilities(pre, s) = Ok("FULL"))
                   => have_capabilities(m, s) = Ok("PARTIAL")
    /\ \A s \in Scopes :
          (/\ \/ Returned("fill")
              \/ Returned("update") /\ Len(last.updates) = 1
                    /\ last.updates[1].action = ADD
           /\ have_capabilities(pre, s) = Ok("PARTIAL")
           /\ \A t \in Types, c \in Caps : InScope(t, s) => have_capability(m, t, c))
          => have_capabilities(m, s) = Ok("FULL")

\* A PERMITTED bit added to a state that was NONE, and the state is PARTIAL.
C5_Witness ==
    /\ Returned("update") /\ last.result.ok /\ Len(last.updates) = 1
    /\ last.updates[1].action = ADD /\ last.updates[1].cap_type = PERMITTED
    /\ have_capabilities(pre, BOTH) = Ok("NONE")
    /\ have_capabilities(m, BOTH) = Ok("PARTIAL")
    /\ have_capabilities(m, CAPS) = Ok("PARTIAL")

KnownName(name) == \E c \in Caps : CapName(c) = name
IdOf(name) == CHOOSE c \in Caps : CapName(c) = name

\* The operations updatev makes of its first n names.
NamedOps(n) ==
    [i \in 1 .. n |-> CUpdate(last.action, last.type, IdOf(last.names[i]))]

Unresolved == {i \in 1 .. Len(last.names) : ~KnownName(last.names[i])}

\* C8 as stated: when the k-th name does not resolve, names 1..k-1 are
\* applied and stay, names k.. are not applied, and the outcome is
\* UpdateCapability(capability).
C8_Original ==
    Returned("updatev") /\ Unresolved # {} =>
        /\ IsResultOf(pre, NamedOps(Min(Unresolved) - 1))
        /\ ~last.result.ok /\ last.result.err.kind = "UpdateCapability"

\* C8 (amended): when the k-th name does not resolve, names 1..k-1 are
\* applied and stay, names k.. are not applied, and the outcome is the
\* resolution error: ConvertCapabilityName for a name with a NUL byte,
\* GetCapabilityId(name) otherwise.  With every name resolved all are
\* applied and the result is Ok.
C8_UpdatevStopsAtUnresolvedName ==
    Returned("updatev") =>
        IF Unresolved = {}
        THEN IsResultOf(pre, NamedOps(Len(last.names))) /\ last.result = Ok(Unit)
        ELSE LET k == Min(Unresolved)
             IN  /\ IsResultOf(pre, NamedOps(k - 1))
                 /\ last.result =
                       IF \E i \in 1 .. Len(last.names[k]) : last.names[k][i] = 0
                       THEN Err(ConvertCapabilityName)
                       ELSE Err(GetCapabilityId(last.names[k]))

\* Three names, the second unknown: the first was applied, the third would
\* have changed the state and was not.
C8_Witness ==
    /\ Returned("updatev") /\ Len(last.names) = 3
    /\ KnownName(last.names[1]) /\ last.names[2] = UnknownName
    /\ KnownName(last.names[3])
    /\ m # pre
    /\ ~IsResultOf(m, <<CUpdate(last.action, last.type, IdOf(last.names[3]))>>)
    /\ last.result = Err(GetCapabilityId(UnknownName))


\* C6: restore_state of a snapshot taken in a state S leaves a state that
\* have_capabilities classifies as S for every scope and in which
\* have_capability answers as in S, whatever was done in between.
C6_SnapshotFidelity ==
    Returned("restore_state") =>
        /\ \A s \in Scopes : have_capabilities(m, s) = have_capabilities(last.saved, s)
        /\ \A t \in Types, c \in Caps :
              have_capability(m, t, c) <=> have_capability(last.saved, t, c)

\* A snapshot restored into a state that the scopes classified differently.
C6_Witness ==
    /\ Returned("restore_state")
    /\ have_capabilities(pre, CAPS) # have_capabilities(last.saved, CAPS)
    /\ have_capabilities(pre, BOUNDS) # have_capabilities(last.saved, BOUNDS)
    /\ have_capabilities(m, CAPS) = Ok("PARTIAL")

\* C7: every snapshot is restored at most once, and none is leaked: a block
\* holding a captured state belongs to a CapngState the caller still owns.
C7_NoLeakNoDoubleRestore ==
    /\ \A p \in Ptrs : heap[p].used => CapngState(p) \in handles
    /\ \A h \in handles : heap[h.opaque].used

\* C9: the classification code maps exactly: -1, 0, 1, 2 to Ok of FAIL,
\* NONE, PARTIAL, FULL, every other n to Err(InvalidHaveCapsResult(n)).
C9_ClassificationMapping ==
    (Returned("have_capabilities") \/ Returned("have_permitted_capabilities")) =>
        /\ last.ret = -1 => last.result = Ok("FAIL")
        /\ last.ret = 0 => last.result = Ok("NONE")
        /\ last.ret = 1 => last.result = Ok("PARTIAL")
        /\ last.ret = 2 => last.result = Ok("FULL")
        /\ last.ret \notin {-1, 0, 1, 2}
              => last.result = Err(InvalidHaveCapsResult(last.ret))

\* have_capabilities has reported an out-of-range code as an error.
C9_Witness ==
    /\ Returned("have_capabilities")
    /\ last.ret = 3
    /\ last.result = Err(InvalidHaveCapsResult(3))

\* The error each status-returning call reports.
ErrorOf(op, file) ==
    CASE op = "get_caps_process" -> GetProcessCapabilities
      [] op = "apply" -> ApplyCapabilities
      [] op = "lock" -> LockCapabilities
      [] op = "change_id" -> ChangeTargetId
      [] op = "get_caps_file" -> GetCapsFile(file)
      [] op = "apply_caps_fd" -> ApplyCapsFile(file)

\* The code that ended update: the first negative one, or the last.
DecidingRet ==
    LET neg == {i \in 1 .. Len(last.rets) : last.rets[i] < 0}
    IN  IF neg = {} THEN Len(last.rets) ELSE Min(neg)

\* C10 as stated: every status-returning call reports a non-negative code
\* as Ok and a negative one as its error.
C10_Original ==
    /\ pc = "returned" /\ last.op \in StatusOps =>
          last.result = IF last.ret >= 0 THEN Ok(Unit)
                        ELSE Err(ErrorOf(last.op, last.file))
    /\ Returned("update_ret") =>
          last.result.ok <=> last.rets[DecidingRet] >= 0

\* C10 (amended): update reports a non-negative code as success and a
\* negative one as UpdateCapability; get_caps_process, apply, lock,
\* change_id, get_caps_file and apply_caps_fd report 0 as Ok and every other
\* code, the positive ones included, as their error.
C10_ReturnConventions ==
    /\ pc = "returned" /\ last.op \in StatusOps =>
          last.result = IF last.ret = 0 THEN Ok(Unit)
                        ELSE Err(ErrorOf(last.op, last.file))
    /\ Returned("update_ret") =>
          last.result =
              IF last.rets[DecidingRet] >= 0 THEN Ok(Unit)
              ELSE Err(UpdateCapability(last.updates[DecidingRet].capability))

\* get_caps_process has reported a positive code as its error.
C10_Witness ==
    /\ Returned("get_caps_process")
    /\ last.ret > 0
    /\ last.result = Err(GetProcessCapabilities)

=============================================================================
